---------------------------- MODULE Spec2Model ----------------------------
(***************************************************************************)
(* Model of bin/cleantext.py: the CleanText streaming command.             *)
(*                                                                         *)
(* A Python string is a sequence of one-character TLA+ strings.  A field   *)
(* value of a record is tagged with its Python type: "str" (a string),     *)
(* "list" (a list of strings), "pairs" (a list of (token, tag) pairs) or   *)
(* "absent" (the key is not in the dict).  A record is a function from the *)
(* field names to such values.                                             *)
(*                                                                         *)
(* stream() is a generator: the loop body is modelled one commented        *)
(* section of the source per action, sequenced by pc.                      *)
(***************************************************************************)
EXTENDS Integers, Sequences, FiniteSets, TLC

VARIABLES self, records, idx, record, out, pc

vars == <<self, records, idx, record, out, pc>>

(***************************************************************************)
(* Characters (ASCII; Python 2 str and the re module without re.UNICODE).  *)
(***************************************************************************)
Upper == <<"A","B","C","D","E","F","G","H","I","J","K","L","M",
           "N","O","P","Q","R","S","T","U","V","W","X","Y","Z">>

Lower == <<"a","b","c","d","e","f","g","h","i","j","k","l","m",
           "n","o","p","q","r","s","t","u","v","w","x","y","z">>

Digits == {"0","1","2","3","4","5","6","7","8","9"}

\* The backspace character 0x08: what '\b' denotes in the (non-raw) Python
\* string literal of f_remove_urls, and inside a regex character class.
BS == "\\b"

Range(s) == {s[i] : i \in DOMAIN s}

\* \w of the re module: letters, digits, underscore.  \W is its complement.
IsWordChar(c) == c \in Range(Upper) \cup Range(Lower) \cup Digits \cup {"_"}

\* \d of the re module.
IsDigit(c) == c \in Digits

\* \s of the re module, and the separators of str.split().
IsSpace(c) == c \in {" ", "\t", "\n", "\r", "\f"}

\* str.lower() on one character.
LowerChar(c) ==
    IF c \in Range(Upper)
    THEN Lower[CHOOSE i \in DOMAIN Upper : Upper[i] = c]
    ELSE c

(***************************************************************************)
(* Strings and lists.                                                      *)
(***************************************************************************)
\* [F(x) for x in s]
Map(s, F(_)) == [i \in DOMAIN s |-> F(s[i])]

\* s.startswith(p, i - 1), positions counted from 1
StartsAt(s, i, p) ==
    /\ i + Len(p) - 1 <= Len(s)
    /\ \A k \in DOMAIN p : s[i + k - 1] = p[k]

RECURSIVE Join(_)
\* ' '.join(l) for a list of strings l
Join(l) ==
    IF l = <<>> THEN <<>>
    ELSE IF Len(l) = 1 THEN l[1]
         ELSE l[1] \o <<" ">> \o Join(Tail(l))

\* the items Python iterates over when a str is used as an iterable
Chars(s) == [i \in DOMAIN s |-> <<s[i]>>]


\* Python's s.split(' '): the pieces between single spaces, empty ones kept
RECURSIVE SplitSpaceFrom(_, _, _)
SplitSpaceFrom(s, i, cur) ==
    IF i > Len(s) THEN <<cur>>
    ELSE IF s[i] = " " THEN <<cur>> \o SplitSpaceFrom(s, i + 1, <<>>)
         ELSE SplitSpaceFrom(s, i + 1, Append(cur, s[i]))

SplitSpace(s) == SplitSpaceFrom(s, 1, <<>>)

\* re.split('\W+', s): the pieces between maximal runs of non-word
\* characters; a run at either end leaves an empty piece there
RECURSIVE ReSplitFrom(_, _, _, _)
ReSplitFrom(s, i, cur, insep) ==
    IF i > Len(s) THEN <<cur>>
    ELSE IF IsWordChar(s[i]) THEN ReSplitFrom(s, i + 1, Append(cur, s[i]), FALSE)
         ELSE IF insep THEN ReSplitFrom(s, i + 1, cur, TRUE)
              ELSE <<cur>> \o ReSplitFrom(s, i + 1, <<>>, TRUE)

re_split(s) == ReSplitFrom(s, 1, <<>>, FALSE)

Flush(cur) == IF cur = <<>> THEN <<>> ELSE <<cur>>

\* s.split(): the maximal runs of non-whitespace characters
RECURSIVE SplitFrom(_, _, _)
SplitFrom(s, i, cur) ==
    IF i > Len(s) THEN Flush(cur)
    ELSE IF IsSpace(s[i]) THEN Flush(cur) \o SplitFrom(s, i + 1, <<>>)
         ELSE SplitFrom(s, i + 1, Append(cur, s[i]))

split(s) == SplitFrom(s, 1, <<>>)

\* nltk.word_tokenize, an external capability: modelled as splitting at
\* whitespace and making every punctuation character a token of its own
RECURSIVE TokenizeFrom(_, _, _)
TokenizeFrom(s, i, cur) ==
    IF i > Len(s) THEN Flush(cur)
    ELSE IF IsSpace(s[i]) THEN Flush(cur) \o TokenizeFrom(s, i + 1, <<>>)
         ELSE IF IsWordChar(s[i]) THEN TokenizeFrom(s, i + 1, Append(cur, s[i]))
              ELSE Flush(cur) \o << <<s[i]>> >> \o TokenizeFrom(s, i + 1, <<>>)

word_tokenize(s) == TokenizeFrom(s, 1, <<>>)

\* re.sub(r'[\W\d]', '', text).lower()
IsLetterOrUnderscore(c) == IsWordChar(c) /\ ~IsDigit(c)

Clean(text) == Map(SelectSeq(text, IsLetterOrUnderscore), LowerChar)

\* re.search(r'[\W]', text)
HasNonWord(text) == \E i \in DOMAIN text : ~IsWordChar(text[i])

(***************************************************************************)
(* The linguistic resources (nltk): black boxes, modelled by their graph   *)
(* on the vocabulary of the model.                                         *)
(***************************************************************************)
\* set(stop_words.words('english')), the members the model's texts can hit
stopwords == { <<"t","h","e">>, <<"t","h","i","s">>, <<"o","u","t">>,
               <<"a","r","e">>, <<"a">> }

\* the tag nltk.pos_tag gives a token (wsj tags)
TagOf(tok) ==
    IF tok = <<>> THEN <<"N","N">>
    ELSE IF HasNonWord(tok) THEN <<".">>
    ELSE IF \A i \in DOMAIN tok : IsDigit(tok[i]) THEN <<"C","D">>
    ELSE IF Clean(tok) \in {<<"t","h","e">>, <<"t","h","i","s">>} THEN <<"D","T">>
    ELSE IF Clean(tok) = <<"a","r","e">> THEN <<"V","B","P">>
    ELSE IF Clean(tok) = <<"c","a","t","s">> THEN <<"N","N","S">>
    ELSE IF Clean(tok) = <<"g","r","e","a","t">> THEN <<"J","J">>
    ELSE <<"N","N">>

pos_tag(tokens) == [i \in DOMAIN tokens |-> <<tokens[i], TagOf(tokens[i])>>]

\* WordNetLemmatizer().lemmatize(word, pos): the word itself unless WordNet
\* knows a shorter base form
lemmatize(word, pos) ==
    IF word = <<"c","a","t","s">> /\ pos = "n" THEN <<"c","a","t">>
    ELSE IF word = <<"a","r","e">> /\ pos = "v" THEN <<"b","e">>
    ELSE word

\* PorterStemmer().stem(word)
stem(word) ==
    LET w == Map(word, LowerChar)
    IN  IF w = <<"c","a","t","s">> THEN <<"c","a","t">> ELSE w

(***************************************************************************)
(* CleanText helpers.                                                      *)
(***************************************************************************)
\* get_wordnet_pos: wordnet.ADJ, VERB, NOUN, ADV are 'a', 'v', 'n', 'r'
get_wordnet_pos(treebank_tag) ==
    IF StartsAt(treebank_tag, 1, <<"J">>) THEN "a"
    ELSE IF StartsAt(treebank_tag, 1, <<"V">>) THEN "v"
    ELSE IF StartsAt(treebank_tag, 1, <<"N">>) THEN "n"
    ELSE IF StartsAt(treebank_tag, 1, <<"R">>) THEN "r"
    ELSE "n"

\* the class [^\b\s<] of the pattern: '\b' is the backspace character
UrlChar(c) == c # BS /\ ~IsSpace(c) /\ c # "<"

\* the length of the match of 'https?://' at position i, 0 if there is none
UrlPrefixLen(s, i) ==
    IF StartsAt(s, i, <<"h","t","t","p",":","/","/">>) THEN 7
    ELSE IF StartsAt(s, i, <<"h","t","t","p","s",":","/","/">>) THEN 8
    ELSE 0

\* the end (exclusive) of the greedy run [^\b\s<]+ that starts at j
RECURSIVE UrlRunEnd(_, _)
UrlRunEnd(s, j) ==
    IF j <= Len(s) /\ UrlChar(s[j]) THEN UrlRunEnd(s, j + 1) ELSE j

\* re.sub: the leftmost non-overlapping matches are deleted, left to right
RECURSIVE RemoveUrlsFrom(_, _)
RemoveUrlsFrom(s, i) ==
    IF i > Len(s) THEN <<>>
    ELSE LET n == UrlPrefixLen(s, i)
         IN  IF n > 0 /\ i + n <= Len(s) /\ UrlChar(s[i + n])
             THEN RemoveUrlsFrom(s, UrlRunEnd(s, i + n))
             ELSE <<s[i]>> \o RemoveUrlsFrom(s, i + 1)

f_remove_urls(text) == RemoveUrlsFrom(text, 1)

(***************************************************************************)
(* Records.                                                                *)
(***************************************************************************)
\* self.textfield: the required option, a field name
textfield == "text"

\* the keys a record of the model can hold: the text field, the two keys
\* stream() writes, and two fields of the upstream search
Fields == {textfield, "pos_tag", "pos_tuple", "host", "source"}

Str(s) == [kind |-> "str", val |-> s]
List(l) == [kind |-> "list", val |-> l]
Pairs(l) == [kind |-> "pairs", val |-> l]
Absent == [kind |-> "absent", val |-> <<>>]

Has(r, f) == r[f].kind # "absent"

\* ' '.join(v): a list of strings is joined, a str is iterated character by
\* character; anything else (or a missing key) raises
CanJoin(v) == v.kind \in {"list", "str"}

\* ''.join(v): the separator forgotten
RECURSIVE JoinTight(_)
JoinTight(l) == IF l = <<>> THEN <<>> ELSE l[1] \o JoinTight(Tail(l))

PyJoinTight(v) == Str(JoinTight(IF v.kind = "str" THEN Chars(v.val) ELSE v.val))

PyJoin(v) == Str(Join(IF v.kind = "str" THEN Chars(v.val) ELSE v.val))

(***************************************************************************)
(* stream(): the sections of the loop body, each a function of the options *)
(* (self) and the record.                                                  *)
(***************************************************************************)
\* base_word and base_type == 'lemma_pos'
LemmaPosMode(o) == o.base_word /\ o.base_type = "lemma_pos"

\* the test of the option inverted
UrlRemovalInverted(o, r) ==
    IF ~o.remove_urls
    THEN [r EXCEPT ![textfield] = Str(f_remove_urls(r[textfield].val))]
    ELSE r

\* #URL removal
UrlRemoval(o, r) ==
    IF o.remove_urls
    THEN [r EXCEPT ![textfield] = Str(f_remove_urls(r[textfield].val))]
    ELSE r

\* the comprehensions of lines 169-178 and 180-188 over record['pos_tuple']
CleanPair(text) == <<Clean(text[1]), text[2]>>

KeepCleanNotStop(text) ==
    Clean(text[1]) \notin stopwords /\ ~HasNonWord(text[1])

KeepClean(text) == ~HasNonWord(text[1])

\* #Tokenization
Tokenization(o, r) ==
    IF LemmaPosMode(o) \/ o.force_nltk_tokenize
    THEN IF LemmaPosMode(o)
         THEN LET tagged == pos_tag(word_tokenize(r[textfield].val))
              IN  [r EXCEPT !["pos_tuple"] = Pairs(
                     IF o.default_clean /\ o.remove_stopwords
                     THEN Map(SelectSeq(tagged, KeepCleanNotStop), CleanPair)
                     ELSE IF o.default_clean /\ ~o.remove_stopwords
                          THEN Map(SelectSeq(tagged, KeepClean), CleanPair)
                          ELSE tagged)]
         ELSE [r EXCEPT ![textfield] = List(word_tokenize(r[textfield].val))]
    ELSE IF o.default_clean \/ (o.base_word /\ o.base_type = "lemma")
         THEN [r EXCEPT ![textfield] = List(re_split(r[textfield].val))]
         ELSE [r EXCEPT ![textfield] = List(split(r[textfield].val))]

\* #Default Clean
DefaultClean(o, r) ==
    IF o.default_clean /\ ~(o.base_type = "lemma_pos")
    THEN [r EXCEPT ![textfield] = List(Map(r[textfield].val, Clean))]
    ELSE r

LemmaOfPair(text) == lemmatize(text[1], get_wordnet_pos(text[2]))

KeepText(text) == LemmaOfPair(text) # <<>>

LemmaPair(text) == <<LemmaOfPair(text), text[2]>>

TagOfPair(text) == text[2]

\* tag_list.append outside the test of keep_text: a tag for every pair
LemmaPosTagsUnfiltered(o, r) ==
    IF LemmaPosMode(o)
    THEN LET kept == SelectSeq(r["pos_tuple"].val, KeepText)
         IN  [r EXCEPT ![textfield] = List(Map(kept, LemmaOfPair)),
                       !["pos_tag"] = List(Map(r["pos_tuple"].val, TagOfPair)),
                       !["pos_tuple"] = IF kept = <<>> THEN r["pos_tuple"]
                                        ELSE Pairs(Map(kept, LemmaPair))]
    ELSE r

\* #Lemmatization with POS tagging
LemmaPos(o, r) ==
    IF LemmaPosMode(o)
    THEN LET kept == SelectSeq(r["pos_tuple"].val, KeepText)
         IN  [r EXCEPT ![textfield] = List(Map(kept, LemmaOfPair)),
                       !["pos_tag"] = List(Map(kept, TagOfPair)),
                       !["pos_tuple"] = IF kept = <<>> THEN r["pos_tuple"]
                                        ELSE Pairs(Map(kept, LemmaPair))]
    ELSE r

NotStopword(text) == text \notin stopwords

LemmatizeNoun(text) == lemmatize(text, "n")

\* #Lemmatization or Stemming with stopword removal
BaseWithStopwords(o, r) ==
    IF o.remove_stopwords /\ o.base_word /\ o.base_type # "lemma_pos"
    THEN IF o.base_type = "lemma"
         THEN [r EXCEPT ![textfield] =
                 List(Map(SelectSeq(r[textfield].val, NotStopword), LemmatizeNoun))]
         ELSE IF o.base_type = "stem"
              THEN [r EXCEPT ![textfield] =
                      List(Map(SelectSeq(r[textfield].val, NotStopword), stem))]
              ELSE r
    ELSE r

\* #Lemmatization or Stemming without stopword removal
BaseWithoutStopwords(o, r) ==
    IF ~o.remove_stopwords /\ o.base_word
    THEN IF o.base_type = "lemma"
         THEN [r EXCEPT ![textfield] = List(Map(r[textfield].val, LemmatizeNoun))]
         ELSE IF o.base_type = "stem"
              THEN [r EXCEPT ![textfield] = List(Map(r[textfield].val, stem))]
              ELSE r
    ELSE r

\* #Stopword Removal
StopwordRemoval(o, r) ==
    IF o.remove_stopwords /\ ~o.base_word
    THEN [r EXCEPT ![textfield] = List(SelectSeq(r[textfield].val, NotStopword))]
    ELSE r

\* the join applied to every field that can be joined
FinalOutputAllFields(o, r) ==
    IF ~o.mv
    THEN [f \in Fields |-> IF CanJoin(r[f]) THEN PyJoin(r[f]) ELSE r[f]]
    ELSE r

\* the join of pos_tag left out
FinalOutputTextOnly(o, r) ==
    IF ~o.mv
    THEN [r EXCEPT ![textfield] = PyJoin(r[textfield])]
    ELSE r

\* #Final Multi-Value Output: the text field is a list here; the join of
\* pos_tag is inside try/except, so a join that raises changes nothing
FinalOutput(o, r) ==
    IF ~o.mv
    THEN LET joined == [r EXCEPT ![textfield] = PyJoin(r[textfield])]
         IN  IF CanJoin(joined["pos_tag"])
             THEN [joined EXCEPT !["pos_tag"] = PyJoin(joined["pos_tag"])]
             ELSE joined
    ELSE r

\* one pass of the loop body
Process(o, r) ==
    FinalOutput(o, StopwordRemoval(o, BaseWithoutStopwords(o,
        BaseWithStopwords(o, LemmaPos(o, DefaultClean(o,
            Tokenization(o, UrlRemoval(o, r))))))))

(***************************************************************************)
(* Inputs: the options and the records of a run.                           *)
(***************************************************************************)
\* longest text of the pipeline runs, in chunks
MaxChunks == 2

\* longest text of the URL runs, in chunks
MaxUrlChunks == 3

\* longest input of the stream runs, in records
MaxRecords == 2

BaseTypes == {"lemma", "lemma_pos", "stem"}

\* the Option declarations of the class: every value the validators accept
Options ==
    [default_clean : BOOLEAN, remove_urls : BOOLEAN, remove_stopwords : BOOLEAN,
     base_word : BOOLEAN, base_type : BaseTypes, mv : BOOLEAN,
     force_nltk_tokenize : BOOLEAN]

\* the default= of every Option
Defaults ==
    [default_clean |-> TRUE, remove_urls |-> TRUE, remove_stopwords |-> TRUE,
     base_word |-> TRUE, base_type |-> "lemma", mv |-> TRUE,
     force_nltk_tokenize |-> FALSE]

RECURSIVE Concats(_, _)
\* the concatenations of at most n members of C
Concats(C, n) ==
    IF n = 0 THEN {<<>>}
    ELSE LET P == Concats(C, n - 1) IN P \cup {p \o c : p \in P, c \in C}

RECURSIVE SeqsUpTo(_, _)
\* the sequences of at most n members of S
SeqsUpTo(S, n) ==
    IF n = 0 THEN {<<>>}
    ELSE LET P == SeqsUpTo(S, n - 1) IN P \cup {Append(p, x) : p \in P, x \in S}

Chunks == { <<"T","h","e">>, <<" ","c","a","t","s">>, <<"1">>, <<"!">> }

UrlChunks == { <<"h","t","t","p",":","/","/">>, <<"h","t","t","p","s",":","/","/">>,
               <<"x">>, <<" ">>, <<"<">>, <<BS>> }

\* 'Check this out http://x.co/a great site!!'
ExampleText ==
    <<"C","h","e","c","k"," ","t","h","i","s"," ","o","u","t"," ",
      "h","t","t","p",":","/","/","x",".","c","o","/","a"," ",
      "g","r","e","a","t"," ","s","i","t","e","!","!">>

Texts == Concats(Chunks, MaxChunks) \cup {ExampleText}

UrlTexts == Concats(UrlChunks, MaxUrlChunks)

\* a record of the upstream search: its fields are strings
InputRecord(text, host, tag) ==
    [f \in Fields |->
        IF f = textfield THEN Str(text)
        ELSE IF f = "host" THEN Str(host)
        ELSE IF f = "pos_tag" THEN tag
        ELSE Absent]

InputTags == {Absent, Str(<<"N","N">>)}

InputRecords(texts) ==
    {InputRecord(t, <<"w","e","b">>, tag) : t \in texts, tag \in InputTags}

StreamRecords ==
    { InputRecord(<<"T","h","e"," ","c","a","t","s">>, <<"w","1">>, Absent),
      InputRecord(<<"c","a","t","s"," ","1">>, <<"w","2">>, Absent),
      InputRecord(<<"T","h","e">>, <<"w","3">>, Str(<<"N","N">>)) }

StreamOptions ==
    {o \in Options : o.remove_urls /\ o.default_clean /\ ~o.force_nltk_tokenize}

NoRecord == [f \in Fields |-> Absent]

(***************************************************************************)
(* The generator.                                                          *)
(***************************************************************************)
Start ==
    /\ idx = 0
    /\ record = NoRecord
    /\ out = <<>>
    /\ pc = "next"

\* every option combination on one record
Init ==
    /\ self \in Options
    /\ records \in {<<r>> : r \in InputRecords(Texts)}
    /\ Start

\* texts made of URL fragments
InitUrl ==
    /\ self \in {o \in Options : \A k \in DOMAIN o \ {"remove_urls", "mv"} :
                                    o[k] = Defaults[k]}
    /\ records \in {<<r>> : r \in InputRecords(UrlTexts)}
    /\ Start

\* several records
InitStream ==
    /\ self \in StreamOptions
    /\ records \in SeqsUpTo(StreamRecords, MaxRecords)
    /\ Start

\* the input walked from its end
NextOfReversed(rs, i) == rs[Len(rs) - i]

\* for record in records: the record the loop takes after idx records
NextOf(rs, i) == rs[i + 1]

\* yield record: what the consumer has received so far
Yielded(o, r) == Append(o, r)

NextRecord ==
    /\ pc = "next"
    /\ idx < Len(records)
    /\ record' = NextOf(records, idx)
    /\ idx' = idx + 1
    /\ pc' = "url"
    /\ UNCHANGED <<self, records, out>>

StopIteration ==
    /\ pc = "next"
    /\ idx = Len(records)
    /\ pc' = "done"
    /\ UNCHANGED <<self, records, idx, record, out>>

StepUrlRemoval ==
    /\ pc = "url"
    /\ record' = UrlRemoval(self, record)
    /\ pc' = "tokenize"
    /\ UNCHANGED <<self, records, idx, out>>

StepTokenization ==
    /\ pc = "tokenize"
    /\ record' = Tokenization(self, record)
    /\ pc' = "clean"
    /\ UNCHANGED <<self, records, idx, out>>

StepDefaultClean ==
    /\ pc = "clean"
    /\ record' = DefaultClean(self, record)
    /\ pc' = "lemma_pos"
    /\ UNCHANGED <<self, records, idx, out>>

StepLemmaPos ==
    /\ pc = "lemma_pos"
    /\ record' = LemmaPos(self, record)
    /\ pc' = "base_stop"
    /\ UNCHANGED <<self, records, idx, out>>

StepBaseWithStopwords ==
    /\ pc = "base_stop"
    /\ record' = BaseWithStopwords(self, record)
    /\ pc' = "base_nostop"
    /\ UNCHANGED <<self, records, idx, out>>

StepBaseWithoutStopwords ==
    /\ pc = "base_nostop"
    /\ record' = BaseWithoutStopwords(self, record)
    /\ pc' = "stopword"
    /\ UNCHANGED <<self, records, idx, out>>

StepStopwordRemoval ==
    /\ pc = "stopword"
    /\ record' = StopwordRemoval(self, record)
    /\ pc' = "output"
    /\ UNCHANGED <<self, records, idx, out>>

StepFinalOutput ==
    /\ pc = "output"
    /\ record' = FinalOutput(self, record)
    /\ pc' = "yield"
    /\ UNCHANGED <<self, records, idx, out>>

Yield ==
    /\ pc = "yield"
    /\ out' = Yielded(out, record)
    /\ pc' = "next"
    /\ UNCHANGED <<self, records, idx, record>>

Next ==
    \/ NextRecord
    \/ StepUrlRemoval
    \/ StepTokenization
    \/ StepDefaultClean
    \/ StepLemmaPos
    \/ StepBaseWithStopwords
    \/ StepBaseWithoutStopwords
    \/ StepStopwordRemoval
    \/ StepFinalOutput
    \/ Yield
    \/ StopIteration

Spec == Init /\ [][Next]_vars

SpecUrl == InitUrl /\ [][Next]_vars

SpecStream == InitStream /\ [][Next]_vars

(***************************************************************************)
(* Properties.                                                             *)
(***************************************************************************)
SameValue(a, b) == a.kind = b.kind /\ a.val = b.val

SameRecord(a, b) == \A f \in Fields : SameValue(a[f], b[f])

\* the number of tokens of a list that are not stopwords
NonStopCount(l) == Cardinality({i \in DOMAIN l : l[i] \notin stopwords})

C2_StopwordsRemoved ==
    [][self.remove_stopwords =>
        /\ (pc = "tokenize" /\ LemmaPosMode(self)) =>
               \A i \in DOMAIN record'["pos_tuple"].val :
                   record'["pos_tuple"].val[i][1] \notin stopwords
        /\ (pc = "base_stop" /\ self.base_word /\ ~LemmaPosMode(self)) =>
               Len(record'[textfield].val) = NonStopCount(record[textfield].val)
        /\ (pc = "stopword" /\ ~self.base_word) =>
               /\ Len(record'[textfield].val) = NonStopCount(record[textfield].val)
               /\ \A i \in DOMAIN record'[textfield].val :
                      record'[textfield].val[i] \notin stopwords
      ]_vars

\* what the same options with mv=true yield for the i-th record
MultiValueTokens(i) == Process([self EXCEPT !.mv = TRUE], records[i])[textfield].val

\* C3 as stated: with default clean, the joined (mv=false) text field split
\* on single spaces is the token sequence mv=true yields, also when that
\* sequence is empty or holds empty tokens.
C3_RoundTrip ==
    \A i \in DOMAIN out :
        (self.default_clean /\ ~self.mv) =>
            SplitSpace(out[i][textfield].val) = MultiValueTokens(i)

\* C3 amended: with default clean, the joined (mv=false) text field split
\* on single spaces is the token sequence mv=true yields whenever that
\* sequence is not empty (empty tokens included); when it is empty the
\* joined text is the empty string, which splits into one empty token.
C3_RoundTripNonEmpty ==
    \A i \in DOMAIN out :
        (self.default_clean /\ ~self.mv) =>
            IF MultiValueTokens(i) = <<>>
            THEN /\ out[i][textfield].val = <<>>
                 /\ SplitSpace(out[i][textfield].val) = << <<>> >>
            ELSE SplitSpace(out[i][textfield].val) = MultiValueTokens(i)

C3_Witness ==
    /\ Len(out) = 1
    /\ self.default_clean /\ ~self.mv
    /\ Len(MultiValueTokens(1)) >= 2
    /\ \E k \in DOMAIN MultiValueTokens(1) : MultiValueTokens(1)[k] = <<>>
    /\ \E k \in DOMAIN MultiValueTokens(1) : MultiValueTokens(1)[k] # <<>>

IsExample(i) == self = Defaults /\ records[i][textfield].val = ExampleText

\* C4 as stated: with the default options the example text yields exactly
\* the tokens check, great, site.
C4_Example ==
    \A i \in DOMAIN out :
        IsExample(i) =>
            /\ out[i][textfield].kind = "list"
            /\ out[i][textfield].val =
                   << <<"c","h","e","c","k">>, <<"g","r","e","a","t">>,
                      <<"s","i","t","e">> >>

\* C4 amended: with the default options the example text yields the tokens
\* check, great, site and then one empty token, the piece re.split leaves
\* after the trailing '!!'.
C4_ExampleTrailingEmpty ==
    \A i \in DOMAIN out :
        IsExample(i) =>
            /\ out[i][textfield].kind = "list"
            /\ out[i][textfield].val =
                   << <<"c","h","e","c","k">>, <<"g","r","e","a","t">>,
                      <<"s","i","t","e">>, <<>> >>

C4_Witness == Len(out) = 1 /\ IsExample(1)

TextShape == IF self.mv THEN "list" ELSE "str"

\* C5 as stated: a yielded text field is a token sequence with mv and a
\* string without, and a tag field present on a yielded record has the
\* shape of the text field.
C5_Shape ==
    \A i \in DOMAIN out :
        /\ out[i][textfield].kind = TextShape
        /\ Has(out[i], "pos_tag") => out[i]["pos_tag"].kind = TextShape

\* C5 amended: a yielded text field is a token sequence with mv and a
\* string without; a tag field present on a yielded record has the shape
\* of the text field when the output is joined or the record went through
\* lemma-with-POS mode (a tag field of the input passes through mv output
\* as the string it was).
C5_ShapeOfWrittenTag ==
    \A i \in DOMAIN out :
        /\ out[i][textfield].kind = TextShape
        /\ (Has(out[i], "pos_tag") /\ (~self.mv \/ LemmaPosMode(self))) =>
               out[i]["pos_tag"].kind = TextShape

C5_Witness ==
    /\ Len(out) = 1
    /\ LemmaPosMode(self) /\ ~self.mv
    /\ out[1]["pos_tag"].kind = "str" /\ out[1]["pos_tag"].val # <<>>

\* the (token, tag) pairs the i-th record hands to the lemmatizer
TaggedPairs(i) == Tokenization(self, UrlRemoval(self, records[i]))["pos_tuple"].val

\* the pairs of ps whose lemma is not empty, by position
KeptAt(ps) == {j \in DOMAIN ps : LemmaOfPair(ps[j]) # <<>>}

RankIn(K, j) == Cardinality({k \in K : k <= j})

\* C6: in lemma-with-POS mode with mv output, the yielded text and tag
\* fields have the same length, the k-th tag is the tag of the pair the
\* k-th lemma came from, pairs are emitted in order, and a pair whose lemma
\* is empty contributes neither a lemma nor a tag.
C6_TagsParallelLemmas ==
    \A i \in DOMAIN out :
        (LemmaPosMode(self) /\ self.mv) =>
            LET ps == TaggedPairs(i)
                K == KeptAt(ps)
                text == out[i][textfield]
                tags == out[i]["pos_tag"]
            IN  /\ text.kind = "list" /\ tags.kind = "list"
                /\ Len(text.val) = Len(tags.val)
                /\ Len(text.val) = Cardinality(K)
                /\ \A k \in DOMAIN text.val : text.val[k] # <<>>
                /\ \A j \in K :
                       /\ text.val[RankIn(K, j)] = LemmaOfPair(ps[j])
                       /\ tags.val[RankIn(K, j)] = ps[j][2]

C6_Witness ==
    /\ Len(out) = 1
    /\ LemmaPosMode(self) /\ self.mv
    /\ Len(out[1][textfield].val) >= 1
    /\ \E j \in DOMAIN TaggedPairs(1) :
           /\ j \notin KeptAt(TaggedPairs(1))
           /\ j < Len(TaggedPairs(1))

\* C7: the records yielded so far are the transformations of the first
\* records of the input, in input order, each a function of its own input
\* record alone; a record is yielded before the next is taken; when the
\* input is exhausted there is one output record per input record.
C7_OneInOneOutInOrder ==
    /\ Len(out) = IF pc \in {"next", "done"} THEN idx ELSE idx - 1
    /\ Len(out) <= Len(records)
    /\ \A i \in DOMAIN out : SameRecord(out[i], Process(self, records[i]))
    /\ pc = "done" => Len(out) = Len(records)

C7_Witness ==
    /\ pc = "done"
    /\ Len(out) = 2
    /\ ~SameRecord(records[1], records[2])
    /\ ~SameRecord(out[1], out[2])

\* the URL pattern as C8 words it: http:// or https:// and then at least
\* one character that is neither whitespace nor '<'
ClaimedUrlMatch(s) ==
    \E i \in DOMAIN s :
        LET n == UrlPrefixLen(s, i)
        IN  n > 0 /\ i + n <= Len(s) /\ ~IsSpace(s[i + n]) /\ s[i + n] # "<"

\* C8 as stated: with remove_urls, the text handed to tokenization holds no
\* match of the URL pattern, and removing URLs from it again changes nothing.
C8_NoUrlLeft ==
    (pc = "tokenize" /\ self.remove_urls) =>
        /\ ~ClaimedUrlMatch(record[textfield].val)
        /\ f_remove_urls(record[textfield].val) = record[textfield].val

\* C9 as stated: with default clean, unless the record took the
\* lemma-with-POS tokenization (base word with base type lemma_pos), the
\* clean step maps every token to the token without non-word and digit
\* characters, lowercased.
C9_CleanUnlessBranch1a ==
    [][(pc = "clean" /\ self.default_clean /\ ~LemmaPosMode(self)) =>
          /\ record'[textfield].kind = "list"
          /\ record'[textfield].val = Map(record[textfield].val, Clean)
      ]_vars

\* C10 as stated: in joined mode the output step joins a tag field that is
\* a sequence of tags, leaves an absent tag field absent, and leaves a tag
\* field that is already a string as it was.
C10_TagJoinBestEffort ==
    [][(pc = "output" /\ ~self.mv) =>
          /\ record["pos_tag"].kind = "list" =>
                 SameValue(record'["pos_tag"], Str(Join(record["pos_tag"].val)))
          /\ record["pos_tag"].kind = "absent" => ~Has(record', "pos_tag")
          /\ record["pos_tag"].kind = "str" =>
                 SameValue(record'["pos_tag"], record["pos_tag"])
      ]_vars

=============================================================================
